---- MODULE Spec2Model ----
(***************************************************************************)
(* A model of RawProviderServer.ApplyResourceChange                        *)
(* (manifest/provider/apply.go): the derived Create / Update / Delete      *)
(* decision, the computed-field set, the backfill of computed attributes   *)
(* from the manifest, the store operations of one call and their order,    *)
(* and the invalidation of the OpenAPI foundry.                            *)
(*                                                                         *)
(* A call is a process: it blocks on the store at Get, Patch, the wait for *)
(* completion and Delete, and several calls may be in flight against the   *)
(* same store.  Everything between two blocking points is one step.        *)
(***************************************************************************)
EXTENDS Integers, Sequences, FiniteSets, TLC

(***************************************************************************)
(* Bounds of the model.                                                    *)
(***************************************************************************)
\* the longest computed_fields list a request carries
MaxFields == 2
\* the most causes a structured API status carries
MaxCauses == 2

(***************************************************************************)
(* tftypes: types and values.  A value is Null, Unknown or Known; a Known  *)
(* value carries a string (s), a number (n) or children (kids).  As in     *)
(* tftypes, IsKnown is "not Unknown": a Null value is known.               *)
(***************************************************************************)
NoKids == <<>>

TString == [k |-> "string", attrs |-> NoKids]

TNumber == [k |-> "number", attrs |-> NoKids]

\* a map of strings (labels, annotations)
TMap == [k |-> "map", attrs |-> NoKids]

TObject(attrs) == [k |-> "object", attrs |-> attrs]

NullOf(t) == [tag |-> "null", ty |-> t, s |-> "", n |-> 0, kids |-> NoKids]

UnknownOf(t) == [tag |-> "unknown", ty |-> t, s |-> "", n |-> 0, kids |-> NoKids]

Str(s) == [tag |-> "known", ty |-> TString, s |-> s, n |-> 0, kids |-> NoKids]

Num(n) == [tag |-> "known", ty |-> TNumber, s |-> "", n |-> n, kids |-> NoKids]

\* an object value whose type is read off its attributes (a value of
\* DynamicPseudoType, as "manifest" is)
Obj(kids) ==
  [tag |-> "known", ty |-> TObject([a \in DOMAIN kids |-> kids[a].ty]),
   s |-> "", n |-> 0, kids |-> kids]

\* an object value of a given object type
ObjOf(t, kids) == [tag |-> "known", ty |-> t, s |-> "", n |-> 0, kids |-> kids]

MapOf(kids) == [tag |-> "known", ty |-> TMap, s |-> "", n |-> 0, kids |-> kids]

IsNull(v) == v.tag = "null"

IsKnown(v) == v.tag # "unknown"

IsContainer(t) == t.k \in {"object", "map"}

\* the type of the child of a container type at a name
ChildType(t, a) == IF t.k = "object" THEN t.attrs[a] ELSE TString

(***************************************************************************)
(* Attribute paths.  A step selects an attribute of an object or the       *)
(* element of a map at a key.  String is the canonical form that keys the  *)
(* computed-field set.                                                     *)
(***************************************************************************)
Attr(a) == [k |-> "attr", name |-> a]

ElementKey(a) == [k |-> "key", name |-> a]

NewAttributePath == <<>>

WithAttributeName(p, a) == Append(p, Attr(a))

WithElementKeyString(p, a) == Append(p, ElementKey(a))

StepString(st) ==
  IF st.k = "attr" THEN "AttributeName(" \o st.name \o ")"
  ELSE "ElementKeyString(" \o st.name \o ")"

RECURSIVE PathString(_)
PathString(p) ==
  IF p = <<>> THEN ""
  ELSE IF Len(p) = 1 THEN StepString(p[1])
  ELSE PathString(SubSeq(p, 1, Len(p) - 1)) \o "." \o StepString(p[Len(p)])

\* the step to the child of a container type at a name
StepOf(t, a) == IF t.k = "object" THEN Attr(a) ELSE ElementKey(a)

(***************************************************************************)
(* tftypes.WalkAttributePath: the value of `val` at `path`.  A step fails  *)
(* on a Null or Unknown value, on a value of the wrong kind and on a name  *)
(* the value does not have; the steps not yet applied are returned as the  *)
(* rest, the failing one included.                                         *)
(***************************************************************************)
ApplyStep(val, st) ==
  IF ~IsKnown(val) \/ IsNull(val) THEN [ok |-> FALSE, val |-> val]
  ELSE IF st.k = "attr" /\ val.ty.k # "object" THEN [ok |-> FALSE, val |-> val]
  ELSE IF st.k = "key" /\ val.ty.k # "map" THEN [ok |-> FALSE, val |-> val]
  ELSE IF st.name \notin DOMAIN val.kids THEN [ok |-> FALSE, val |-> val]
  ELSE [ok |-> TRUE, val |-> val.kids[st.name]]

RECURSIVE WalkAttributePath(_, _)
WalkAttributePath(val, path) ==
  IF Len(path) = 0 THEN [ok |-> TRUE, val |-> val, rest |-> path]
  ELSE LET next == ApplyStep(val, Head(path)) IN
    IF ~next.ok THEN [ok |-> FALSE, val |-> val, rest |-> path]
    ELSE WalkAttributePath(next.val, Tail(path))

(***************************************************************************)
(* The morph package (manifest/morph).  Numbers are written in decimal.    *)
(***************************************************************************)
Digits == <<"0", "1", "2", "3">>

Numbers == 0 .. (Len(Digits) - 1)

FormatNumber(n) == Digits[n + 1]

IsNumeric(s) == \E n \in Numbers : FormatNumber(n) = s

ParseNumber(s) == CHOOSE n \in Numbers : FormatNumber(n) = s

Converted(v) == [ok |-> TRUE, val |-> v]

Failed(v) == [ok |-> FALSE, val |-> v]

\* morph.ValueToType: the value coerced to a type, or a failure when a
\* scalar does not read as the target primitive or a container does not have
\* the target's shape.  Attributes of the target an object lacks become Null.
RECURSIVE ValueToType(_, _)
ValueToType(v, t) ==
  IF IsNull(v) THEN Converted(NullOf(t))
  ELSE IF ~IsKnown(v) THEN Converted(UnknownOf(t))
  ELSE IF v.ty.k = "string" /\ t.k = "string" THEN Converted(v)
  ELSE IF v.ty.k = "number" /\ t.k = "number" THEN Converted(v)
  ELSE IF v.ty.k = "string" /\ t.k = "number" THEN
    IF IsNumeric(v.s) THEN Converted(Num(ParseNumber(v.s))) ELSE Failed(v)
  ELSE IF v.ty.k = "number" /\ t.k = "string" THEN Converted(Str(FormatNumber(v.n)))
  ELSE IF IsContainer(v.ty) /\ IsContainer(t) THEN
    IF t.k = "object" /\ ~(DOMAIN v.kids \subseteq DOMAIN t.attrs) THEN Failed(v)
    ELSE LET each == [a \in DOMAIN v.kids |-> ValueToType(v.kids[a], ChildType(t, a))]
             names == IF t.k = "object" THEN DOMAIN t.attrs ELSE DOMAIN v.kids
         IN IF \E a \in DOMAIN v.kids : ~each[a].ok THEN Failed(v)
            ELSE Converted([tag |-> "known", ty |-> t, s |-> "", n |-> 0,
                            kids |-> [a \in names |->
                                        IF a \in DOMAIN v.kids THEN each[a].val
                                        ELSE NullOf(ChildType(t, a))]])
  ELSE Failed(v)

\* morph.UnknownToNull: every Unknown node becomes Null, at any depth.
RECURSIVE UnknownToNull(_)
UnknownToNull(v) ==
  IF ~IsKnown(v) THEN NullOf(v.ty)
  ELSE IF IsNull(v) THEN v
  ELSE IF IsContainer(v.ty) THEN
    [v EXCEPT !.kids = [a \in DOMAIN v.kids |-> UnknownToNull(v.kids[a])]]
  ELSE v

(***************************************************************************)
(* The backfill of computed attributes (apply.go 157-178): the function    *)
(* handed to tftypes.Transform, and Transform's walk, which visits the     *)
(* children of a Known container before the container itself and does not  *)
(* descend into a Null or Unknown value.                                   *)
(***************************************************************************)
\* an attribute the manifest does not have reported as an error
BackfillFailsWhenAbsent(ap, v, manifest, computedFields) ==
  IF PathString(ap) \notin DOMAIN computedFields THEN Converted(v)
  ELSE IF IsKnown(v) THEN Converted(v)
  ELSE LET w == WalkAttributePath(manifest, ap) IN
    IF ~w.ok THEN Failed(v)
    ELSE LET nv == ValueToType(w.val, v.ty) IN
      IF ~nv.ok THEN Failed(v) ELSE Converted(nv.val)

\* the value of the manifest substituted as it is, not coerced
BackfillWithoutCoercion(ap, v, manifest, computedFields) ==
  IF PathString(ap) \notin DOMAIN computedFields THEN Converted(v)
  ELSE IF IsKnown(v) THEN Converted(v)
  ELSE LET w == WalkAttributePath(manifest, ap) IN
    IF ~w.ok THEN (IF Len(w.rest) > 0 THEN Converted(v) ELSE Failed(v))
    ELSE Converted(w.val)

\* every Unknown attribute backfilled, computed or not
BackfillIgnoresComputedSet(ap, v, manifest, computedFields) ==
  IF IsKnown(v) THEN Converted(v)
  ELSE LET w == WalkAttributePath(manifest, ap) IN
    IF ~w.ok THEN (IF Len(w.rest) > 0 THEN Converted(v) ELSE Failed(v))
    ELSE LET nv == ValueToType(w.val, v.ty) IN
      IF ~nv.ok THEN Failed(v) ELSE Converted(nv.val)

\* a Null planned value backfilled as an Unknown one is
BackfillReplacesNull(ap, v, manifest, computedFields) ==
  IF PathString(ap) \notin DOMAIN computedFields THEN Converted(v)
  ELSE IF v.tag = "known" THEN Converted(v)
  ELSE LET w == WalkAttributePath(manifest, ap) IN
    IF ~w.ok THEN (IF Len(w.rest) > 0 THEN Converted(v) ELSE Failed(v))
    ELSE LET nv == ValueToType(w.val, v.ty) IN
      IF ~nv.ok THEN Failed(v) ELSE Converted(nv.val)

BackfillCallback(ap, v, manifest, computedFields) ==
  IF PathString(ap) \notin DOMAIN computedFields THEN Converted(v)
  ELSE IF IsKnown(v) THEN Converted(v)
  ELSE LET w == WalkAttributePath(manifest, ap) IN
    IF ~w.ok THEN (IF Len(w.rest) > 0 THEN Converted(v) ELSE Failed(v))
    ELSE LET nv == ValueToType(w.val, v.ty) IN
      IF ~nv.ok THEN Failed(v) ELSE Converted(nv.val)

RECURSIVE Transform(_, _, _, _)
Transform(ap, val, manifest, computedFields) ==
  IF IsNull(val) \/ ~IsKnown(val) \/ ~IsContainer(val.ty) THEN
    BackfillCallback(ap, val, manifest, computedFields)
  ELSE LET each == [a \in DOMAIN val.kids |->
                      Transform(Append(ap, StepOf(val.ty, a)), val.kids[a],
                                manifest, computedFields)]
       IN IF \E a \in DOMAIN val.kids : ~each[a].ok THEN Failed(val)
          ELSE BackfillCallback(ap, [val EXCEPT !.kids = [a \in DOMAIN val.kids |-> each[a].val]],
                                manifest, computedFields)

\* apply.go 157-188: the planned object with its computed attributes
\* backfilled from the manifest
Backfill(obj, manifest, computedFields) ==
  Transform(NewAttributePath, obj, manifest, computedFields)

(***************************************************************************)
(* Diagnostics.  Every diagnostic of ApplyResourceChange has severity      *)
(* Error; a diagnostic is modelled by its summary.                         *)
(***************************************************************************)
NoDiags == <<>>

(***************************************************************************)
(* FieldPathToTftypesPath (manifest/provider, not in apply.go): a field    *)
(* path string of the configuration parsed into an attribute path, or a    *)
(* failure.  The strings a request may carry are those of FieldStrings.    *)
(***************************************************************************)
FieldStrings ==
  {"metadata.labels", "spec.replicas", "spec", "metadata..labels"}

FieldPathToTftypesPath(vs) ==
  IF vs = "metadata.labels" THEN
    [ok |-> TRUE, path |-> WithAttributeName(WithAttributeName(NewAttributePath, "metadata"), "labels")]
  ELSE IF vs = "spec.replicas" THEN
    [ok |-> TRUE, path |-> WithAttributeName(WithAttributeName(NewAttributePath, "spec"), "replicas")]
  ELSE IF vs = "spec" THEN
    [ok |-> TRUE, path |-> WithAttributeName(NewAttributePath, "spec")]
  ELSE [ok |-> FALSE, path |-> NewAttributePath]

(***************************************************************************)
(* The computed-field set (apply.go 72-105).  computed_fields is missing   *)
(* from the planned values (a Null planned state), Null, Unknown, or a     *)
(* list of string values; an element is a Known string or Unknown.         *)
(***************************************************************************)
NoFields == <<>>

KnownElem(s) == [tag |-> "known", s |-> s]

UnknownElem == [tag |-> "unknown", s |-> ""]

CfMissing == [tag |-> "missing", elems |-> <<>>]

CfNull == [tag |-> "null", elems |-> <<>>]

CfUnknown == [tag |-> "unknown", elems |-> <<>>]

CfList(elems) == [tag |-> "known", elems |-> elems]

\* computedFields[atp.String()] = atp
PutField(fields, atp) ==
  [key \in DOMAIN fields \cup {PathString(atp)} |->
     IF key = PathString(atp) THEN atp ELSE fields[key]]

DefaultComputedFields ==
  PutField(PutField(NoFields,
      WithAttributeName(WithAttributeName(NewAttributePath, "metadata"), "annotations")),
      WithAttributeName(WithAttributeName(NewAttributePath, "metadata"), "labels"))

\* apply.go 79-97: the loop over the elements of the list, from element i on
RECURSIVE ComputedFieldsLoop(_, _, _)
ComputedFieldsLoop(cf, i, acc) ==
  IF i > Len(cf) THEN acc
  ELSE IF cf[i].tag = "unknown" THEN ComputedFieldsLoop(cf, i + 1, acc)
  ELSE LET parsed == FieldPathToTftypesPath(cf[i].s) IN
    IF ~parsed.ok THEN
      ComputedFieldsLoop(cf, i + 1,
        [acc EXCEPT !.diags = Append(@, "[computed_fields] cannot parse filed path element")])
    ELSE ComputedFieldsLoop(cf, i + 1,
        [acc EXCEPT !.fields = PutField(@, parsed.path)])

\* the defaults used for an empty list too
ExtractComputedFieldsDefaultsWhenEmpty(cfVal) ==
  IF cfVal.tag = "known" /\ Len(cfVal.elems) > 0 THEN
    ComputedFieldsLoop(cfVal.elems, 1, [fields |-> NoFields, diags |-> NoDiags])
  ELSE [fields |-> DefaultComputedFields, diags |-> NoDiags]

\* apply.go 72-105: the computed fields of the call and the diagnostics of
\* the elements that do not parse
ExtractComputedFields(cfVal) ==
  IF cfVal.tag = "known" THEN
    ComputedFieldsLoop(cfVal.elems, 1, [fields |-> NoFields, diags |-> NoDiags])
  ELSE [fields |-> DefaultComputedFields, diags |-> NoDiags]

(***************************************************************************)
(* The payload package and the helpers of the provider that turn the       *)
(* planned object into the request body (apply.go 188-204).  An untyped    *)
(* object is a Null, a string, a number or a map of untyped objects.       *)
(***************************************************************************)
UNull == [k |-> "null", s |-> "", n |-> 0, kids |-> NoKids]

\* payload.FromTFValue
RECURSIVE FromTFValue(_)
FromTFValue(v) ==
  IF IsNull(v) \/ ~IsKnown(v) THEN UNull
  ELSE IF IsContainer(v.ty) THEN
    [k |-> "map", s |-> "", n |-> 0,
     kids |-> [a \in DOMAIN v.kids |-> FromTFValue(v.kids[a])]]
  ELSE [k |-> v.ty.k, s |-> v.s, n |-> v.n, kids |-> NoKids]

\* mapRemoveNulls: the entries of a map that hold a Null are dropped, at any
\* depth
RECURSIVE mapRemoveNulls(_)
mapRemoveNulls(u) ==
  IF u.k # "map" THEN u
  ELSE LET keep == {a \in DOMAIN u.kids : u.kids[a].k # "null"}
       IN [u EXCEPT !.kids = [a \in keep |-> mapRemoveNulls(u.kids[a])]]

\* a string field of an unstructured object's metadata, "" when absent
MetadataString(uo, field) ==
  IF uo.k = "map" /\ "metadata" \in DOMAIN uo.kids
     /\ uo.kids["metadata"].k = "map"
     /\ field \in DOMAIN uo.kids["metadata"].kids
     /\ uo.kids["metadata"].kids[field].k = "string"
  THEN uo.kids["metadata"].kids[field].s
  ELSE ""

\* unstructured.GetName
GetName(uo) == MetadataString(uo, "name")

\* unstructured.GetNamespace
GetNamespace(uo) == MetadataString(uo, "namespace")

\* the kind of an unstructured object, "" when absent
GetKind(uo) ==
  IF uo.k = "map" /\ "kind" \in DOMAIN uo.kids /\ uo.kids["kind"].k = "string"
  THEN uo.kids["kind"].s
  ELSE ""

(***************************************************************************)
(* The kinds the cluster knows and their scope (the REST mapper), and the  *)
(* schema of a resource (TFTypeFromOpenAPI).                               *)
(***************************************************************************)
Kinds == {"ConfigMap", "ClusterRole"}

\* IsResourceNamespaced
IsResourceNamespaced(kind) == kind = "ConfigMap"

\* metadata.uid is one of the fields the store itself computes
MetadataType ==
  TObject([name |-> TString, namespace |-> TString, labels |-> TMap,
           annotations |-> TMap, uid |-> TString])

SpecType == TObject([replicas |-> TNumber])

ObjectType == TObject([kind |-> TString, metadata |-> MetadataType, spec |-> SpecType])

\* the resource handle: c.Resource(gvr).Namespace(ns) or c.Resource(gvr); a
\* resource of the store is named by its handle and its name
Handle(kind, namespaced, rnamespace) ==
  [kind |-> kind, namespace |-> IF namespaced THEN rnamespace ELSE ""]

ResourceKey(rs, rname) == [kind |-> rs.kind, namespace |-> rs.namespace, name |-> rname]

UString(s) == [k |-> "string", s |-> s, n |-> 0, kids |-> NoKids]

UMap(kids) == [k |-> "map", s |-> "", n |-> 0, kids |-> kids]

\* the labels of a resource that another field manager owns, if any
OtherLabels == {<<>>, [team |-> UString("a")]}

\* the labels of a request body, none when it has no labels
LabelsOf(body) ==
  IF "labels" \in DOMAIN body.kids["metadata"].kids
     /\ body.kids["metadata"].kids["labels"].k = "map"
  THEN body.kids["metadata"].kids["labels"].kids
  ELSE <<>>

\* result.Object of rs.Patch: the store answers with the object it holds
\* after the server-side apply, which is the body merged with the fields of
\* the other field managers, and with the fields the store keeps itself
Answer(body, others) ==
  LET labels == LabelsOf(body) @@ others
      added == [uid |-> UString("u1"), resourceVersion |-> UString("1")]
      merged == IF DOMAIN labels = {} THEN added ELSE added @@ [labels |-> UMap(labels)]
  IN [body EXCEPT !.kids = [metadata |-> UMap(merged @@ body.kids["metadata"].kids)] @@ @]

\* the fields of the store's bookkeeping
ServerSideFields ==
  {"uid", "resourceVersion", "creationTimestamp", "generation", "selfLink", "managedFields"}

\* RemoveServerSideFields: the status and the bookkeeping fields of the
\* metadata are removed from the store's answer
RemoveServerSideFields(u) ==
  IF u.k # "map" THEN u
  ELSE LET top == [a \in DOMAIN u.kids \ {"status"} |-> u.kids[a]]
       IN IF "metadata" \notin DOMAIN top \/ top["metadata"].k # "map" THEN UMap(top)
          ELSE LET meta == top["metadata"].kids
               IN UMap([top EXCEPT !["metadata"] =
                          UMap([a \in DOMAIN meta \ ServerSideFields |-> meta[a]])])

\* payload.ToTFValue: the store's object as a value of the schema's type;
\* what the object lacks is Null
RECURSIVE ToTFValue(_, _)
ToTFValue(u, t) ==
  IF u.k = "null" THEN NullOf(t)
  ELSE IF t.k = "object" THEN
    ObjOf(t, [a \in DOMAIN t.attrs |->
                IF u.k = "map" /\ a \in DOMAIN u.kids THEN ToTFValue(u.kids[a], t.attrs[a])
                ELSE NullOf(t.attrs[a])])
  ELSE IF t.k = "map" THEN
    MapOf([a \in (IF u.k = "map" THEN DOMAIN u.kids ELSE {}) |-> ToTFValue(u.kids[a], TString)])
  ELSE IF t.k = "number" THEN
    (IF u.k = "number" THEN Num(u.n)
     ELSE IF u.k = "string" /\ IsNumeric(u.s) THEN Num(ParseNumber(u.s))
     ELSE NullOf(t))
  ELSE (IF u.k = "string" THEN Str(u.s)
        ELSE IF u.k = "number" THEN Str(FormatNumber(u.n))
        ELSE NullOf(t))

\* morph.DeepUnknown: the value in the shape of the type, Unknown wherever the
\* value holds nothing
RECURSIVE DeepUnknown(_, _)
DeepUnknown(t, v) ==
  IF IsNull(v) \/ ~IsKnown(v) THEN UnknownOf(t)
  ELSE IF IsContainer(t) THEN
    [v EXCEPT !.kids = [a \in DOMAIN v.kids |-> DeepUnknown(ChildType(t, a), v.kids[a])]]
  ELSE v

(***************************************************************************)
(* Planned and prior state of a request.  A state is Null, Unknown or an   *)
(* object of the resource type with the attributes object, manifest,       *)
(* wait_for and computed_fields.                                           *)
(***************************************************************************)
\* the value of an attribute a state does not have
NoObject == NullOf(TString)

StateNull ==
  [tag |-> "null", object |-> NoObject, manifest |-> NoObject,
   wait_for |-> FALSE, computed_fields |-> CfMissing]

StateUnknown == [StateNull EXCEPT !.tag = "unknown"]

StateOf(object, manifest, wait_for, computed_fields) ==
  [tag |-> "known", object |-> object, manifest |-> manifest,
   wait_for |-> wait_for, computed_fields |-> computed_fields]

\* plannedStateVal["computed_fields"]: missing when the state has no values
ComputedFieldsOf(state) ==
  IF state.tag = "known" THEN state.computed_fields ELSE CfMissing

(***************************************************************************)
(* The requests the calls of the model are made with.                      *)
(***************************************************************************)
\* the metadata of a planned object: the uid is the store's to compute
Metadata(name, namespace, labels, annotations) ==
  ObjOf(MetadataType, [name |-> name, namespace |-> namespace,
                       labels |-> labels, annotations |-> annotations,
                       uid |-> UnknownOf(TString)])

Replicas(r) == ObjOf(SpecType, [replicas |-> r])

ResourceObject(kind, metadata, spec) ==
  ObjOf(ObjectType, [kind |-> Str(kind), metadata |-> metadata, spec |-> spec])

\* {metadata: {name: "x"}, spec: {replicas: Unknown}} in the resource's type:
\* what the user does not set and the store computes is Unknown
PlannedObjectA(kind, namespace) ==
  ResourceObject(kind,
    Metadata(Str("x"), namespace, UnknownOf(TMap), UnknownOf(TMap)),
    Replicas(UnknownOf(TNumber)))

\* {spec: {replicas: r}}
ManifestWithReplicas(r) == Obj([spec |-> Obj([replicas |-> r])])

ManifestA == ManifestWithReplicas(Num(3))

\* an object as a call leaves it in the state
StoredObject(kind) ==
  ResourceObject(kind,
    ObjOf(MetadataType, [name |-> Str("x"), namespace |-> Str("ns"),
                         labels |-> NullOf(TMap), annotations |-> NullOf(TMap),
                         uid |-> NullOf(TString)]),
    Replicas(Num(3)))

PlannedStates ==
  {StateNull, StateUnknown}
  \cup {StateOf(PlannedObjectA(kind, Str("ns")), ManifestA, wf, CfNull) :
          kind \in Kinds, wf \in BOOLEAN}
  \cup {StateOf(PlannedObjectA(kind, Str("ns")), ManifestA, FALSE,
                CfList(<<KnownElem("metadata..labels")>>)) : kind \in Kinds}
  \cup {StateOf(PlannedObjectA("ConfigMap", Str("ns")), ManifestWithReplicas(Str("abc")),
                FALSE, CfList(<<KnownElem("spec.replicas")>>))}

PriorStates ==
  {StateNull, StateUnknown}
  \cup {StateOf(StoredObject(kind), ManifestA, FALSE, CfNull) : kind \in Kinds}

Requests == [prior : PriorStates, planned : PlannedStates]

\* what two clients that work on the same resource send: the create of the
\* ConfigMap x of namespace ns and its delete
ConcurrentRequests ==
  {[prior |-> StateNull,
    planned |-> StateOf(PlannedObjectA("ConfigMap", Str("ns")), ManifestA, FALSE, CfNull)],
   [prior |-> StateOf(StoredObject("ConfigMap"), ManifestA, FALSE, CfNull),
    planned |-> StateNull]}

(***************************************************************************)
(* ApplyResourceChange up to its first request to the store (apply.go      *)
(* 21-227, and 250-259 for an update).  `fail` names the collaborator that *)
(* fails in this call, if it is reached.                                   *)
(***************************************************************************)
PrepareFailures ==
  {"none", "canExecute", "GetResourceType", "PlannedState.Unmarshal",
   "PriorState.Unmarshal", "getDynamicClient", "getRestMapper",
   "GVKFromTftypesObject", "TFTypeFromOpenAPI", "FromTFValue",
   "GVRFromUnstructured", "IsResourceNamespaced", "MarshalJSON"}

NoHandle == [kind |-> "", namespace |-> ""]

NoLocals ==
  [rname |-> "", rs |-> NoHandle, uo |-> UNull, result |-> UNull,
   computedFields |-> NoFields, schema |-> FALSE]

\* return resp, nil with a diagnostic appended
WithDiagnostic(diags, summary, locals) ==
  [pc |-> "returned", diags |-> Append(diags, summary), err |-> "", locals |-> locals]

\* return resp, err
WithError(diags, err, locals) ==
  [pc |-> "returned", diags |-> diags, err |-> err, locals |-> locals]

BlockedAt(pc, diags, locals) ==
  [pc |-> pc, diags |-> diags, err |-> "", locals |-> locals]

\* GVKFromTftypesObject needs a Known object with a Known kind the cluster has
HasKind(obj) ==
  /\ obj.tag = "known" /\ obj.ty.k = "object" /\ "kind" \in DOMAIN obj.kids
  /\ obj.kids["kind"].tag = "known" /\ obj.kids["kind"].s \in Kinds

\* the handle of a delete scoped to a namespace whatever the kind
PrepareDeleteAlwaysNamespaced(r, fail, diags) ==
  IF r.prior.tag = "unknown" THEN
    WithDiagnostic(diags, "Failed to extract prior resource state values", NoLocals)
  ELSE LET pco == r.prior.object
           uo == FromTFValue(pco)
           rs == Handle(GetKind(uo), TRUE, GetNamespace(uo))
           locals == [NoLocals EXCEPT !.rname = GetName(uo), !.rs = rs, !.uo = uo]
    IN IF fail = "FromTFValue" THEN WithError(diags, "FromTFValue", NoLocals)
       ELSE IF fail = "GVRFromUnstructured" THEN WithError(diags, "GVRFromUnstructured", NoLocals)
       ELSE IF fail = "GVKFromTftypesObject" \/ ~HasKind(pco) THEN
         WithError(diags, "failed to determine resource GVK", NoLocals)
       ELSE IF fail = "IsResourceNamespaced" THEN WithError(diags, "IsResourceNamespaced", NoLocals)
       ELSE BlockedAt("delete", diags, locals)

\* apply.go 311-360: the Delete case
PrepareDelete(r, fail, diags) ==
  IF r.prior.tag = "unknown" THEN
    WithDiagnostic(diags, "Failed to extract prior resource state values", NoLocals)
  ELSE LET pco == r.prior.object
           uo == FromTFValue(pco)
           rs == Handle(GetKind(uo), IsResourceNamespaced(GetKind(uo)), GetNamespace(uo))
           locals == [NoLocals EXCEPT !.rname = GetName(uo), !.rs = rs, !.uo = uo]
    IN IF fail = "FromTFValue" THEN WithError(diags, "FromTFValue", NoLocals)
       ELSE IF fail = "GVRFromUnstructured" THEN WithError(diags, "GVRFromUnstructured", NoLocals)
       ELSE IF fail = "GVKFromTftypesObject" \/ ~HasKind(pco) THEN
         WithError(diags, "failed to determine resource GVK", NoLocals)
       ELSE IF fail = "IsResourceNamespaced" THEN WithError(diags, "IsResourceNamespaced", NoLocals)
       ELSE BlockedAt("delete", diags, locals)

\* the existence check never made
IsCreateNever(r) == FALSE

\* the existence check made on every apply, create or update
IsCreateAlways(r) == TRUE

\* apply.go 229: a create checks that the resource does not exist
IsCreate(r) == r.prior.tag = "null"

\* apply.go 131-259: the Apply case, up to the Get of a create or the Patch
\* of an update
PrepareApply(r, fail, diags, computedFields) ==
  IF r.planned.tag # "known" THEN
    WithDiagnostic(diags, "Failed to find object value in planned resource state", NoLocals)
  ELSE IF fail = "GVKFromTftypesObject" \/ ~HasKind(r.planned.object) THEN
    WithError(diags, "failed to determine resource GVK", NoLocals)
  ELSE IF fail = "TFTypeFromOpenAPI" THEN
    WithError(diags, "failed to determine resource type ID", NoLocals)
  ELSE LET seen == [NoLocals EXCEPT !.schema = TRUE, !.computedFields = computedFields]
           filled == Backfill(r.planned.object, r.planned.manifest, computedFields)
           minObj == UnknownToNull(filled.val)
           uo == mapRemoveNulls(FromTFValue(minObj))
           rs == Handle(GetKind(uo), IsResourceNamespaced(GetKind(uo)), GetNamespace(uo))
           locals == [seen EXCEPT !.rname = GetName(uo), !.rs = rs, !.uo = uo]
    IN IF ~filled.ok THEN
         WithDiagnostic(diags, "Failed to backfill computed values in proposed object", seen)
       ELSE IF fail = "FromTFValue" THEN WithError(diags, "FromTFValue", seen)
       ELSE IF fail = "GVRFromUnstructured" THEN
         WithError(diags, "failed to determine resource GVR", seen)
       ELSE IF fail = "IsResourceNamespaced" THEN
         WithDiagnostic(diags, "Failed to discover scope of resource", seen)
       ELSE IF IsCreate(r) THEN BlockedAt("get", diags, locals)
       ELSE IF fail = "MarshalJSON" THEN
         WithDiagnostic(diags, "Failed to marshall resource to JSON", locals)
       ELSE BlockedAt("patch", diags, locals)

\* the resource applied only when there is a planned state
IsApplyCaseWhenPlanned(r) == r.planned.tag # "null"

\* apply.go 130: the case of the switch that applies the resource
IsApplyCase(r) ==
  r.prior.tag = "null" \/ (r.planned.tag # "null" /\ r.prior.tag # "null")

\* apply.go 311: the case of the switch that deletes the resource
IsDeleteCase(r) == r.planned.tag = "null"

\* apply.go 21-130 and 375-379
Prepare(r, fail) ==
  IF fail = "canExecute" THEN WithDiagnostic(NoDiags, "canExecute", NoLocals)
  ELSE IF fail = "GetResourceType" THEN
    WithDiagnostic(NoDiags, "Failed to determine planned resource type", NoLocals)
  ELSE IF fail = "PlannedState.Unmarshal" THEN
    WithDiagnostic(NoDiags, "Failed to unmarshal planned resource state", NoLocals)
  ELSE IF fail = "PriorState.Unmarshal" THEN
    WithDiagnostic(NoDiags, "Failed to unmarshal prior resource state", NoLocals)
  ELSE IF r.planned.tag = "unknown" THEN
    WithDiagnostic(NoDiags, "Failed to extract planned resource state values", NoLocals)
  ELSE LET cf == ExtractComputedFields(ComputedFieldsOf(r.planned)) IN
    IF fail = "getDynamicClient" THEN
      WithDiagnostic(cf.diags, "Failed to retrieve Kubernetes dynamic client during apply", NoLocals)
    ELSE IF fail = "getRestMapper" THEN
      WithDiagnostic(cf.diags, "Failed to retrieve Kubernetes RESTMapper client during apply", NoLocals)
    ELSE IF IsApplyCase(r) THEN PrepareApply(r, fail, cf.diags, cf.fields)
    ELSE IF IsDeleteCase(r) THEN PrepareDelete(r, fail, cf.diags)
    ELSE [pc |-> "returned", diags |-> cf.diags, err |-> "", locals |-> NoLocals]

(***************************************************************************)
(* The state: the store, the provider's OpenAPI foundry (TRUE when it      *)
(* holds a discovered schema, FALSE when it is nil) and, for each call in  *)
(* flight, its position, request, locals, response and the requests it     *)
(* has made to the store.  workload names what the clients of the server   *)
(* do in a run: "serial" clients send any request, one at a time, and      *)
(* "concurrent" clients send requests for one resource together.  The      *)
(* last three variables carry one evaluation of the value pipeline of a    *)
(* call (computed fields, backfill, collapse) on its own.                  *)
(***************************************************************************)
VARIABLES workload, req, loc, input, store, foundry, pc, resp, ops, stage, output

vars == <<workload, store, foundry, pc, req, loc, resp, ops, stage, input, output>>

callVars == <<workload, store, foundry, pc, req, loc, resp, ops>>

pipeVars == <<stage, input, output>>

\* the calls that may be in flight together
Calls == {"c1", "c2"}

\* the calls the clients of a workload make
CallsOf(w) ==
  IF w = "serial" THEN {"c1"} ELSE IF w = "concurrent" THEN Calls ELSE {}

\* the requests the clients of a workload send
RequestsOf(w) ==
  IF w = "serial" THEN Requests
  ELSE IF w = "concurrent" THEN ConcurrentRequests ELSE {}

NoRequest == [prior |-> StateNull, planned |-> StateNull]

NoState == [set |-> FALSE, state |-> StateNull]

NoResponse == [diags |-> NoDiags, newState |-> NoState, err |-> ""]

NoOutput == [computedFields |-> NoFields, diags |-> NoDiags, ok |-> TRUE,
             obj |-> NoObject, minObj |-> NoObject]

NoInput == [object |-> NoObject, manifest |-> NoObject, computed_fields |-> CfMissing]

\* the resources the requests of the model name
ResourceKeys ==
  {ResourceKey(Handle(kind, IsResourceNamespaced(kind), "ns"), "x") : kind \in Kinds}

CallInit ==
  /\ workload = "serial"
  /\ store \in SUBSET ResourceKeys
  /\ foundry \in BOOLEAN
  /\ pc = [c \in Calls |-> "idle"]
  /\ req = [c \in Calls |-> NoRequest]
  /\ loc = [c \in Calls |-> NoLocals]
  /\ resp = [c \in Calls |-> NoResponse]
  /\ ops = [c \in Calls |-> <<>>]

Init ==
  /\ CallInit
  /\ stage = "off"
  /\ input = NoInput
  /\ output = NoOutput

KeyOf(c) == ResourceKey(loc[c].rs, loc[c].rname)

(***************************************************************************)
(* The collaborators of a call: the store behind the resource handle and   *)
(* the wait for completion.  A request to the store may always fail.       *)
(***************************************************************************)
\* rs.Get: nil, a not-found error or another error
GetResults(key) == (IF key \in store THEN {"ok"} ELSE {"notfound"}) \cup {"error"}

\* rs.Patch: nil, an error that carries a status, with any number of causes
\* or none, or another error
PatchResults == {"ok", "status", "error"}

\* rs.Delete: nil, a not-found error or another error
DeleteResults(key) == (IF key \in store THEN {"ok"} ELSE {"notfound"}) \cup {"error"}

\* waitForCompletion: nothing to wait for when wait_for is Null
WaitResults(wait_for) == IF wait_for THEN {"ok", "error"} ELSE {"ok"}

Done(diags, err, newState, refresh) ==
  [pc |-> "returned", diags |-> diags, err |-> err, newState |-> newState,
   schema |-> FALSE, refresh |-> refresh]

GoOn(at, schema) ==
  [pc |-> at, diags |-> NoDiags, err |-> "", newState |-> NoState,
   schema |-> schema, refresh |-> FALSE]

\* every error of the existence check taken for not-found
OnGetProceedsOnError(result, marshals) ==
  IF result = "ok" THEN
    Done(<<"Cannot create resource that already exists">>, "", NoState, FALSE)
  ELSE IF ~marshals THEN
    Done(<<"Failed to marshall resource to JSON">>, "", NoState, FALSE)
  ELSE GoOn("patch", FALSE)

\* apply.go 230-259: what follows the existence check of a create
OnGet(result, marshals) ==
  IF result = "ok" THEN
    Done(<<"Cannot create resource that already exists">>, "", NoState, FALSE)
  ELSE IF result # "notfound" THEN
    Done(<<"Failed to determine if resource exists">>, "", NoState, FALSE)
  ELSE IF ~marshals THEN
    Done(<<"Failed to marshall resource to JSON">>, "", NoState, FALSE)
  ELSE GoOn("patch", FALSE)

\* APIStatusErrorToDiagnostics: one diagnostic for each cause of the status
APIStatusErrorToDiagnostics(causes) == [i \in 1 .. causes |-> "status cause"]

\* the diagnostics of a failed write recorded without returning
OnPatchWaitsAfterFailure(result, causes, fail) ==
  IF fail = "ToTFValue" THEN Done(NoDiags, "ToTFValue", NoState, FALSE)
  ELSE IF fail = "TFTypeFromOpenAPI" THEN
    Done(NoDiags, "failed to determine resource type ID", NoState, FALSE)
  ELSE [GoOn("wait", TRUE) EXCEPT
          !.diags = IF result = "status" THEN APIStatusErrorToDiagnostics(causes)
                    ELSE IF result # "ok" THEN <<"PATCH for resource failed to apply">>
                    ELSE NoDiags]

\* apply.go 262-288: what follows the write. `fail` names the collaborator
\* that fails after a write that succeeded.
OnPatch(result, causes, fail) ==
  IF result = "status" THEN Done(APIStatusErrorToDiagnostics(causes), "", NoState, FALSE)
  ELSE IF result # "ok" THEN
    Done(<<"PATCH for resource failed to apply">>, "", NoState, FALSE)
  ELSE IF fail = "ToTFValue" THEN Done(NoDiags, "ToTFValue", NoState, FALSE)
  ELSE IF fail = "TFTypeFromOpenAPI" THEN
    Done(NoDiags, "failed to determine resource type ID", NoState, FALSE)
  ELSE GoOn("wait", TRUE)

\* the object of the new state left as DeepUnknown made it
NewObjectNotCollapsed(answer) ==
  DeepUnknown(ObjectType, ToTFValue(RemoveServerSideFields(answer), ObjectType))

\* apply.go 278 and 296-300: the object of the new state, from the answer of
\* the store
NewObject(answer) ==
  UnknownToNull(DeepUnknown(ObjectType,
                            ToTFValue(RemoveServerSideFields(answer), ObjectType)))

\* the error of the wait for completion dropped
OnWaitIgnoresError(result, fail, planned, answer) ==
  IF fail # "none" THEN Done(NoDiags, fail, NoState, FALSE)
  ELSE Done(NoDiags, "",
            [set |-> TRUE, state |-> [planned EXCEPT !.object = NewObject(answer)]], TRUE)

\* the foundry refreshed when the wait for completion fails too
OnWaitRefreshesOnError(result, fail, planned, answer) ==
  IF result # "ok" THEN Done(NoDiags, "waitForCompletion", NoState, TRUE)
  ELSE IF fail # "none" THEN Done(NoDiags, fail, NoState, FALSE)
  ELSE Done(NoDiags, "",
            [set |-> TRUE, state |-> [planned EXCEPT !.object = NewObject(answer)]], TRUE)

\* apply.go 291-310 and 375-379: what follows the wait for completion
OnWait(result, fail, planned, answer) ==
  IF result # "ok" THEN Done(NoDiags, "waitForCompletion", NoState, FALSE)
  ELSE IF fail # "none" THEN Done(NoDiags, fail, NoState, FALSE)
  ELSE Done(NoDiags, "",
            [set |-> TRUE, state |-> [planned EXCEPT !.object = NewObject(answer)]], TRUE)

\* a resource that is not found taken for deleted
OnDeleteNotFoundIsSuccess(result, planned) ==
  IF result \notin {"ok", "notfound"} THEN Done(<<"DELETE resource failed">>, "", NoState, FALSE)
  ELSE Done(NoDiags, "", [set |-> TRUE, state |-> planned], TRUE)

\* apply.go 361-379: what follows the delete
OnDelete(result, planned) ==
  IF result # "ok" THEN Done(<<"DELETE resource failed">>, "", NoState, FALSE)
  ELSE Done(NoDiags, "", [set |-> TRUE, state |-> planned], TRUE)

\* the store after a write or a delete that succeeded
Written(key) == store \cup {key}

Deleted(key) == store \ {key}

\* a request of a call as the model records it: its name, how it ended and,
\* for an error that carries a status, the number of causes of the status
Request(op, result, causes) == [op |-> op, result |-> result, causes |-> causes]

\* a step of call c from a blocking point on a request that leaves the
\* store as it is: the request it made, where it goes and what it adds to
\* its response; s.OAPIFoundry is rebuilt by a schema lookup and set to nil
\* by the refresh
Step(c, op, result, causes, to) ==
  /\ ops' = [ops EXCEPT ![c] = Append(@, Request(op, result, causes))]
  /\ pc' = [pc EXCEPT ![c] = to.pc]
  /\ resp' = [resp EXCEPT ![c] = [diags |-> @.diags \o to.diags, err |-> to.err,
                                  newState |-> to.newState]]
  /\ foundry' = IF to.refresh THEN FALSE ELSE (foundry \/ to.schema)
  /\ UNCHANGED <<workload, req, loc, pipeVars>>

\* call c sends a request that changes the store and blocks on its answer:
\* the store has handled the request when the call is still waiting
Sends(c, op, result, causes, at) ==
  /\ ops' = [ops EXCEPT ![c] = Append(@, Request(op, result, causes))]
  /\ pc' = [pc EXCEPT ![c] = at]
  /\ UNCHANGED <<workload, req, resp, foundry, pipeVars>>

\* call c gets the answer of the request it is blocked on and goes on
Receives(c, to) ==
  /\ pc' = [pc EXCEPT ![c] = to.pc]
  /\ resp' = [resp EXCEPT ![c] = [diags |-> @.diags \o to.diags, err |-> to.err,
                                  newState |-> to.newState]]
  /\ foundry' = IF to.refresh THEN FALSE ELSE (foundry \/ to.schema)
  /\ UNCHANGED <<workload, req, loc, ops, store, pipeVars>>

\* the request call c made last
LastRequest(c) == ops[c][Len(ops[c])]

\* apply.go 20-227: a call arrives and runs to its first request to the store
Begin(c) ==
  /\ pc[c] = "idle"
  /\ c \in CallsOf(workload)
  /\ \E r \in RequestsOf(workload), fail \in PrepareFailures :
       LET p == Prepare(r, fail) IN
         /\ req' = [req EXCEPT ![c] = r]
         /\ pc' = [pc EXCEPT ![c] = p.pc]
         /\ loc' = [loc EXCEPT ![c] = p.locals]
         /\ resp' = [resp EXCEPT ![c] = [NoResponse EXCEPT !.diags = p.diags, !.err = p.err]]
         /\ foundry' = (foundry \/ p.locals.schema)
  /\ ops' = [ops EXCEPT ![c] = <<>>]
  /\ UNCHANGED <<workload, store, pipeVars>>

\* apply.go 228-259: the existence check of a create, and the marshalling of
\* the request body
CheckExists(c) ==
  /\ pc[c] = "get"
  /\ \E result \in GetResults(KeyOf(c)), marshals \in BOOLEAN :
       Step(c, "Get", result, 0, OnGet(result, marshals))
  /\ UNCHANGED store

\* apply.go 262: the write reaches the store, which applies it and answers
\* with the object it holds, or refuses it
ApplyPatch(c) ==
  /\ pc[c] = "patch"
  /\ \E result \in PatchResults, causes \in 0 .. MaxCauses, others \in OtherLabels :
       /\ Sends(c, "Patch", result, IF result = "status" THEN causes ELSE 0, "patched")
       /\ store' = IF result = "ok" THEN Written(KeyOf(c)) ELSE store
       /\ loc' = [loc EXCEPT ![c].result =
                    IF result = "ok" THEN Answer(loc[c].uo, others) ELSE UNull]

\* apply.go 263-288: rs.Patch returns; the diagnostics of a write that
\* failed, or the conversion of the store's answer and the schema of the wait
PatchReturns(c) ==
  /\ pc[c] = "patched"
  /\ \E fail \in {"none", "ToTFValue", "TFTypeFromOpenAPI"} :
       Receives(c, OnPatch(LastRequest(c).result, LastRequest(c).causes, fail))

\* apply.go 289-310 and 375-379: the wait for completion, the new state and
\* the refresh of the foundry
WaitForCompletion(c) ==
  /\ pc[c] = "wait"
  /\ \E result \in WaitResults(req[c].planned.wait_for),
        fail \in {"none", "DeepUnknown", "NewDynamicValue"} :
       Step(c, "Wait", result, 0, OnWait(result, fail, req[c].planned, loc[c].result))
  /\ UNCHANGED store

\* apply.go 361: the delete reaches the store, which removes the resource or
\* refuses
Delete(c) ==
  /\ pc[c] = "delete"
  /\ \E result \in DeleteResults(KeyOf(c)) :
       /\ Sends(c, "Delete", result, 0, "deleted")
       /\ store' = IF result = "ok" THEN Deleted(KeyOf(c)) ELSE store
  /\ UNCHANGED loc

\* apply.go 362-379: rs.Delete returns; its diagnostic, or the new state and
\* the refresh of the foundry
DeleteReturns(c) ==
  /\ pc[c] = "deleted"
  /\ Receives(c, OnDelete(LastRequest(c).result, req[c].planned))

\* the response is handed to the caller and the call is over
Return(c) ==
  /\ pc[c] = "returned"
  /\ pc' = [pc EXCEPT ![c] = "idle"]
  /\ req' = [req EXCEPT ![c] = NoRequest]
  /\ loc' = [loc EXCEPT ![c] = NoLocals]
  /\ resp' = [resp EXCEPT ![c] = NoResponse]
  /\ ops' = [ops EXCEPT ![c] = <<>>]
  /\ UNCHANGED <<workload, store, foundry, pipeVars>>

Next ==
  \/ \E c \in Calls : Begin(c)
  \/ \E c \in Calls : CheckExists(c)
  \/ \E c \in Calls : ApplyPatch(c)
  \/ \E c \in Calls : PatchReturns(c)
  \/ \E c \in Calls : WaitForCompletion(c)
  \/ \E c \in Calls : Delete(c)
  \/ \E c \in Calls : DeleteReturns(c)
  \/ \E c \in Calls : Return(c)

Spec == Init /\ [][Next]_vars

\* two clients at work on the same resource, with no call in flight yet
InitConcurrent ==
  /\ workload = "concurrent"
  /\ store \in SUBSET ResourceKeys
  /\ foundry \in BOOLEAN
  /\ pc = [c \in Calls |-> "idle"]
  /\ req = [c \in Calls |-> NoRequest]
  /\ loc = [c \in Calls |-> NoLocals]
  /\ resp = [c \in Calls |-> NoResponse]
  /\ ops = [c \in Calls |-> <<>>]
  /\ stage = "off"
  /\ input = NoInput
  /\ output = NoOutput

SpecConcurrent == InitConcurrent /\ [][Next]_vars

(***************************************************************************)
(* Properties of a call.                                                   *)
(***************************************************************************)
IsPrefix(s, u) == Len(s) <= Len(u) /\ \A i \in 1 .. Len(s) : s[i] = u[i]

\* the requests call c has made, by name
OpNames(c) == [i \in 1 .. Len(ops[c]) |-> ops[c][i].op]

\* the requests call c has made to the store itself, the wait left out
StoreOpNames(c) ==
  LET own == SelectSeq(ops[c], LAMBDA o : o.op # "Wait")
  IN [i \in 1 .. Len(own) |-> own[i].op]

HasOp(c, op) == \E i \in 1 .. Len(ops[c]) : ops[c][i].op = op

HasDiagnostic(c, summary) == \E i \in 1 .. Len(resp[c].diags) : resp[c].diags[i] = summary

\* C1: the requests a call makes to the store itself match its derived
\* state: a create (prior Null, planned not Null) makes at most a Get and
\* then at most a Patch, an update (neither Null) at most a Patch, a delete
\* (prior not Null, planned Null) at most a Delete, and none is repeated.
C1_StoreOpsMatchDerivedState ==
  \A c \in Calls :
    /\ (req[c].prior.tag = "null" /\ req[c].planned.tag # "null")
         => IsPrefix(StoreOpNames(c), <<"Get", "Patch">>)
    /\ (req[c].prior.tag # "null" /\ req[c].planned.tag # "null")
         => IsPrefix(StoreOpNames(c), <<"Patch">>)
    /\ (req[c].prior.tag # "null" /\ req[c].planned.tag = "null")
         => IsPrefix(StoreOpNames(c), <<"Delete">>)

\* a create that has made its Get and its Patch and returned a new state
C1_Witness ==
  \E c \in Calls :
    /\ pc[c] = "returned" /\ resp[c].newState.set
    /\ req[c].prior.tag = "null" /\ req[c].planned.tag = "known"
    /\ StoreOpNames(c) = <<"Get", "Patch">>

\* C2: in a call, the Get of a create comes before its Patch, and the wait
\* for completion is entered only after a Patch of this call that succeeded.
C2_GetBeforePatchBeforeWait ==
  \A c \in Calls : \A j \in 1 .. Len(ops[c]) :
    /\ (ops[c][j].op = "Patch" /\ req[c].prior.tag = "null")
         => \E i \in 1 .. (j - 1) : ops[c][i].op = "Get"
    /\ ops[c][j].op = "Wait"
         => \E i \in 1 .. (j - 1) : ops[c][i] = Request("Patch", "ok", 0)

\* a create that has checked, written and waited
C2_Witness ==
  \E c \in Calls :
    /\ req[c].prior.tag = "null" /\ req[c].planned.wait_for
    /\ OpNames(c) = <<"Get", "Patch", "Wait">>

\* C3: in a create, a Get that succeeds ends the call with the conflict
\* diagnostic, no Patch and no new state; a Get that fails otherwise than
\* with not-found ends it with a diagnostic and no Patch; a Patch is made
\* only right after a Get that returned not-found.
C3_CreateGuard ==
  \A c \in Calls : req[c].prior.tag = "null" =>
    \A i \in 1 .. Len(ops[c]) :
      /\ ops[c][i] = Request("Get", "ok", 0)
           => /\ ~HasOp(c, "Patch")
              /\ pc[c] = "returned"
              /\ HasDiagnostic(c, "Cannot create resource that already exists")
              /\ ~resp[c].newState.set
      /\ ops[c][i] = Request("Get", "error", 0)
           => /\ ~HasOp(c, "Patch")
              /\ pc[c] = "returned"
              /\ Len(resp[c].diags) > 0
              /\ ~resp[c].newState.set
      /\ ops[c][i].op = "Patch"
           => i > 1 /\ ops[c][i - 1] = Request("Get", "notfound", 0)

\* a create that found the resource in the store
C3_Witness ==
  \E c \in Calls :
    /\ pc[c] = "returned" /\ req[c].prior.tag = "null"
    /\ ops[c] = <<Request("Get", "ok", 0)>>
    /\ HasDiagnostic(c, "Cannot create resource that already exists")

\* the diagnostics of a validation error of the input
ValidationSummaries ==
  {"Failed to unmarshal planned resource state",
   "Failed to unmarshal prior resource state",
   "Failed to extract planned resource state values",
   "Failed to extract prior resource state values",
   "Failed to find object value in planned resource state",
   "[computed_fields] cannot parse filed path element",
   "Failed to backfill computed values in proposed object"}

\* C4: a call that has recorded the diagnostic of a validation error of its
\* input has ended, and has made no request to the store.
C4_ValidationErrorAbortsBeforeIO ==
  \A c \in Calls :
    (\E s \in ValidationSummaries : HasDiagnostic(c, s))
      => pc[c] = "returned" /\ ops[c] = <<>>

\* C5: a call whose wait for completion fails after its Patch succeeded
\* returns an error and no new state, has made no request after the Patch
\* but the wait, and leaves the resource it wrote in the store.
C5_WaitFailureKeepsWrite ==
  \A c \in Calls :
    (pc[c] = "returned" /\ HasOp(c, "Wait")
       /\ ops[c][Len(ops[c])] = Request("Wait", "error", 0))
      => /\ resp[c].err # ""
         /\ ~resp[c].newState.set
         /\ OpNames(c) \in {<<"Get", "Patch", "Wait">>, <<"Patch", "Wait">>}
         /\ ops[c][Len(ops[c]) - 1] = Request("Patch", "ok", 0)
         /\ KeyOf(c) \in store

\* a call that wrote and whose wait failed
C5_Witness ==
  \E c \in Calls :
    /\ pc[c] = "returned"
    /\ HasOp(c, "Wait")
    /\ ops[c][Len(ops[c])] = Request("Wait", "error", 0)
    /\ KeyOf(c) \in store

\* C6: when a call returns, whatever its outcome, the OpenAPI foundry has
\* been set to nil.
C6_FoundryInvalidatedAtReturn ==
  \A c \in Calls : pc[c] = "returned" => foundry = FALSE

IsDeleteCall(c) == req[c].prior.tag # "null" /\ req[c].planned.tag = "null"

\* C11: a delete call (prior not Null, planned Null) makes at most one
\* request, a Delete, and one that made none has failed before it; the name
\* of the Delete is the name of the prior object and its handle is scoped to
\* the prior object's namespace when the kind is namespaced and to the
\* cluster otherwise; after a Delete that succeeded the new state is the
\* planned state of the request, which is Null, and the resource is gone.
C11_DeleteIdentityFromPrior ==
  \A c \in Calls : IsDeleteCall(c) =>
    /\ IsPrefix(OpNames(c), <<"Delete">>)
    /\ (pc[c] = "returned" /\ ops[c] = <<>>)
         => ~resp[c].newState.set /\ (Len(resp[c].diags) > 0 \/ resp[c].err # "")
    /\ (pc[c] = "delete" \/ HasOp(c, "Delete"))
         => LET kind == req[c].prior.object.kids["kind"].s
                metadata == req[c].prior.object.kids["metadata"].kids
            IN /\ loc[c].rname = metadata["name"].s
               /\ loc[c].rs.kind = kind
               /\ loc[c].rs.namespace =
                    IF IsResourceNamespaced(kind) THEN metadata["namespace"].s ELSE ""
    /\ ops[c] = <<Request("Delete", "ok", 0)>>
         => /\ pc[c] \in {"deleted", "returned"}
            /\ pc[c] = "returned"
                 => resp[c].newState = [set |-> TRUE, state |-> req[c].planned]
            /\ resp[c].newState.state = StateNull
            /\ resp[c].diags = NoDiags /\ resp[c].err = ""
            /\ KeyOf(c) \notin store

\* a delete of a cluster-wide resource that succeeded
C11_Witness ==
  \E c \in Calls :
    /\ IsDeleteCall(c) /\ pc[c] = "returned"
    /\ ops[c] = <<Request("Delete", "ok", 0)>>
    /\ ~IsResourceNamespaced(req[c].prior.object.kids["kind"].s)
    /\ req[c].prior.object.kids["metadata"].kids["namespace"].s # ""
    /\ resp[c].newState.set

\* C12: a Delete of the store that fails, with not-found or with any
\* other error, ends the call with the diagnostic of the failed delete and
\* no new state.
C12_DeleteErrorIsDiagnostic ==
  \A c \in Calls : \A i \in 1 .. Len(ops[c]) :
    (ops[c][i].op = "Delete" /\ ops[c][i].result # "ok")
      => /\ pc[c] \in {"deleted", "returned"}
         /\ pc[c] = "returned" => HasDiagnostic(c, "DELETE resource failed")
         /\ ~resp[c].newState.set

\* a delete of a resource the store does not have
C12_Witness ==
  \E c \in Calls :
    /\ pc[c] = "returned"
    /\ ops[c] = <<Request("Delete", "notfound", 0)>>
    /\ KeyOf(c) \notin store
    /\ HasDiagnostic(c, "DELETE resource failed")

\* C13: a Patch that fails is the last request of its call, which returns
\* no new state and does not wait for completion; the diagnostics the call
\* returns are then, for an error that carries a status, one for each cause
\* of the status (exactly two for two causes), none of them the generic
\* one, and for any other error exactly the one generic diagnostic.
C13_PatchFailureDiagnostics ==
  \A c \in Calls : \A i \in 1 .. Len(ops[c]) :
    (ops[c][i].op = "Patch" /\ ops[c][i].result # "ok")
      => /\ pc[c] \in {"patched", "returned"}
         /\ i = Len(ops[c])
         /\ ~HasOp(c, "Wait")
         /\ ~resp[c].newState.set
         /\ (pc[c] = "returned" /\ ops[c][i].result = "status")
              => /\ Len(resp[c].diags) = ops[c][i].causes
                 /\ \A j \in 1 .. Len(resp[c].diags) :
                      resp[c].diags[j] # "PATCH for resource failed to apply"
         /\ (pc[c] = "returned" /\ ops[c][i].result # "status")
              => resp[c].diags = <<"PATCH for resource failed to apply">>

\* C14: a call whose prior and planned state are both Null makes no
\* request to the store and never waits on it: once begun it has returned,
\* with a diagnostic, no error and no new state.
C14_BothNullNoStoreIO ==
  \A c \in Calls : (req[c].prior.tag = "null" /\ req[c].planned.tag = "null") =>
    /\ ops[c] = <<>>
    /\ pc[c] \in {"idle", "returned"}
    /\ pc[c] = "returned"
         => Len(resp[c].diags) > 0 /\ resp[c].err = "" /\ ~resp[c].newState.set

\* a call with both states Null that found no object to apply
C14_Witness ==
  \E c \in Calls :
    /\ pc[c] = "returned"
    /\ req[c].prior.tag = "null" /\ req[c].planned.tag = "null"
    /\ resp[c].diags = <<"Failed to find object value in planned resource state">>

Returns(c) == pc[c] # "returned" /\ pc'[c] = "returned"

\* C16: the OpenAPI foundry is set to nil by the calls that return a new
\* state, and by them only: a step in which a call returns a new state
\* leaves the foundry nil, and the foundry goes from set to nil in no other
\* step.
C16_FoundryInvalidatedIffSuccess ==
  [][/\ \A c \in Calls : (Returns(c) /\ resp'[c].newState.set) => ~foundry'
     /\ (foundry /\ ~foundry')
          => \E c \in Calls : Returns(c) /\ resp'[c].newState.set]_vars

\* a call that returned a new state and left the foundry nil
C16_Witness ==
  \E c \in Calls :
    /\ pc[c] = "returned" /\ resp[c].newState.set
    /\ HasOp(c, "Patch")
    /\ ~foundry

\* the hard errors of the lookups of the kind, of the schema type and of the
\* resource handle
ResolutionErrors ==
  {"failed to determine resource GVK", "failed to determine resource type ID",
   "failed to determine resource GVR", "GVRFromUnstructured"}

\* C18: a call that returned the hard error of a lookup of the kind, of the
\* schema type or of the resource handle has made no Patch and no Delete.
C18_ResolutionBeforeWrite ==
  \A c \in Calls :
    (pc[c] = "returned" /\ resp[c].err \in ResolutionErrors)
      => ~HasOp(c, "Patch") /\ ~HasOp(c, "Delete")

\* no node of the value is Unknown
RECURSIVE NoUnknown(_)
NoUnknown(v) ==
  /\ v.tag # "unknown"
  /\ v.tag = "known" => \A a \in DOMAIN v.kids : NoUnknown(v.kids[a])

\* C19: the new state of a create or update that succeeded has the
\* manifest, wait_for and computed_fields of the planned state; its object
\* has the shape of the schema, holds what the store answered but the
\* store's bookkeeping, and has no Unknown node at any depth.
C19_NewStateCarriesPlanned ==
  \A c \in Calls :
    (pc[c] = "returned" /\ resp[c].newState.set /\ HasOp(c, "Patch"))
      => LET new == resp[c].newState.state
             planned == req[c].planned
         IN /\ new.tag = "known"
            /\ new.manifest = planned.manifest
            /\ new.wait_for = planned.wait_for
            /\ new.computed_fields = planned.computed_fields
            /\ new.object.tag = "known" /\ new.object.ty = ObjectType
            /\ DOMAIN new.object.kids = DOMAIN ObjectType.attrs
            /\ NoUnknown(new.object)
            /\ mapRemoveNulls(FromTFValue(new.object)) = RemoveServerSideFields(loc[c].result)
            /\ IsNull(new.object.kids["metadata"].kids["uid"])
            /\ \A l \in DOMAIN LabelsOf(loc[c].result) :
                 new.object.kids["metadata"].kids["labels"].kids[l].s
                   = LabelsOf(loc[c].result)[l].s

\* a create or update that succeeded: what the plan left Unknown and the
\* store did not answer is Null in the new state, and the labels of another
\* field manager that the store answered are in it
C19_Witness ==
  \E c \in Calls :
    /\ pc[c] = "returned" /\ resp[c].newState.set /\ HasOp(c, "Patch")
    /\ req[c].planned.wait_for
    /\ ~NoUnknown(req[c].planned.object)
    /\ IsNull(resp[c].newState.state.object.kids["spec"].kids["replicas"])
    /\ resp[c].newState.state.object.kids["metadata"].kids["labels"]
         = MapOf([team |-> Str("a")])
    /\ "uid" \in DOMAIN loc[c].result.kids["metadata"].kids

\* call c is a create that found the resource absent and wrote it
CheckedAndWrote(c) ==
  /\ req[c].prior.tag = "null"
  /\ \E i \in 1 .. Len(ops[c]) : ops[c][i] = Request("Get", "notfound", 0)
  /\ \E i \in 1 .. Len(ops[c]) : ops[c][i] = Request("Patch", "ok", 0)

\* call c makes a request of this name in this step
Makes(c, op) ==
  /\ Len(ops'[c]) = Len(ops[c]) + 1
  /\ ops'[c][Len(ops'[c])].op = op

\* C20 as stated: whatever the interleaving of the calls, a create makes its
\* Patch only while the resource is absent from the store, and two creates
\* of the same resource never both find it absent and both write it.
C20_CreateWritesOnlyWhenAbsent ==
  /\ [][\A c \in Calls : (req[c].prior.tag = "null" /\ Makes(c, "Patch"))
                           => KeyOf(c) \notin store]_vars
  /\ [](\A c \in Calls : \A d \in Calls \ {c} :
          ~(CheckedAndWrote(c) /\ CheckedAndWrote(d) /\ KeyOf(c) = KeyOf(d)))

\* C20, amended: a create makes its Patch only right after its own Get
\* returned not-found, and the resource was absent from the store when that
\* Get was made; nothing is said of the store at the moment of the Patch,
\* nor of the Gets and Patches of another call in between.
C20_CreateWritesAfterOwnCheck ==
  /\ [][\A c \in Calls :
          /\ (req[c].prior.tag = "null" /\ Makes(c, "Patch"))
               => /\ Len(ops[c]) > 0
                  /\ ops[c][Len(ops[c])] = Request("Get", "notfound", 0)
          /\ (Makes(c, "Get") /\ ops'[c][Len(ops'[c])].result = "notfound")
               => KeyOf(c) \notin store]_vars
  /\ [](\A c \in Calls : \A i \in 1 .. Len(ops[c]) :
          (req[c].prior.tag = "null" /\ ops[c][i].op = "Patch")
            => i > 1 /\ ops[c][i - 1] = Request("Get", "notfound", 0))

\* two creates of the same resource that both found it absent and both
\* wrote it
C20_Witness ==
  \E c \in Calls : \E d \in Calls \ {c} :
    CheckedAndWrote(c) /\ CheckedAndWrote(d) /\ KeyOf(c) = KeyOf(d)

(***************************************************************************)
(* The value pipeline of a call on its own (apply.go 72-105, 157-188): the *)
(* computed fields of the configuration, the backfill of the planned       *)
(* object from the manifest and the collapse of what stays Unknown, over   *)
(* planned objects, manifests and configurations drawn from the sets       *)
(* below.                                                                  *)
(***************************************************************************)
PlannedLabels == {UnknownOf(TMap), NullOf(TMap), MapOf([app |-> Str("a")])}

PlannedMetadata ==
  {UnknownOf(MetadataType)}
  \cup {Metadata(Str("x"), NullOf(TString), labels, UnknownOf(TMap)) : labels \in PlannedLabels}

PlannedSpecs ==
  {UnknownOf(SpecType)}
  \cup {Replicas(r) : r \in {UnknownOf(TNumber), NullOf(TNumber), Num(1)}}

PlannedObjects ==
  {ResourceObject("ConfigMap", m, s) : m \in PlannedMetadata, s \in PlannedSpecs}

\* the parts of a manifest: <<>> when the manifest does not have the part
ManifestMetadata ==
  {<<>>}
  \cup {[metadata |-> Obj([name |-> Str("x"), labels |-> l])] :
          l \in {Obj([app |-> Str("a")]), Obj([app |-> Num(1)]), Str("oops"), NullOf(TMap)}}

ManifestSpecs ==
  {<<>>, [spec |-> Obj([replicas |-> Num(3), paused |-> Str("no")])]}
  \cup {[spec |-> Obj([replicas |-> r])] : r \in {Num(3), Str("3"), Str("abc")}}

Manifests == {Obj(m @@ s) : m \in ManifestMetadata, s \in ManifestSpecs}

FieldElems == {KnownElem(s) : s \in FieldStrings} \cup {UnknownElem}

FieldLists == UNION {[1 .. n -> FieldElems] : n \in 0 .. MaxFields}

ComputedFieldsValues == {CfMissing, CfNull, CfUnknown} \cup {CfList(l) : l \in FieldLists}

PipelineInputs ==
  [object : PlannedObjects, manifest : Manifests, computed_fields : ComputedFieldsValues]

InitPipeline ==
  /\ workload = "none"
  /\ store = {}
  /\ foundry = FALSE
  /\ pc = [c \in Calls |-> "idle"]
  /\ req = [c \in Calls |-> NoRequest]
  /\ loc = [c \in Calls |-> NoLocals]
  /\ resp = [c \in Calls |-> NoResponse]
  /\ ops = [c \in Calls |-> <<>>]
  /\ stage = "input"
  /\ input \in PipelineInputs
  /\ output = NoOutput

\* apply.go 72-105
ExtractFields ==
  /\ stage = "input"
  /\ LET cf == ExtractComputedFields(input.computed_fields) IN
       output' = [output EXCEPT !.computedFields = cf.fields, !.diags = cf.diags]
  /\ stage' = "fields"
  /\ UNCHANGED <<callVars, input>>

\* apply.go 157-186
BackfillObject ==
  /\ stage = "fields"
  /\ LET filled == Backfill(input.object, input.manifest, output.computedFields) IN
       /\ output' = [output EXCEPT !.ok = filled.ok, !.obj = filled.val]
       /\ stage' = IF filled.ok THEN "backfilled" ELSE "failed"
  /\ UNCHANGED <<callVars, input>>

\* apply.go 188
CollapseUnknown ==
  /\ stage = "backfilled"
  /\ output' = [output EXCEPT !.minObj = UnknownToNull(output.obj)]
  /\ stage' = "collapsed"
  /\ UNCHANGED <<callVars, input>>

NextPipeline == ExtractFields \/ BackfillObject \/ CollapseUnknown

SpecPipeline == InitPipeline /\ [][NextPipeline]_vars

(***************************************************************************)
(* Properties of the value pipeline.                                       *)
(***************************************************************************)
LabelsPath == <<Attr("metadata"), Attr("labels")>>

AnnotationsPath == <<Attr("metadata"), Attr("annotations")>>

ReplicasPath == <<Attr("spec"), Attr("replicas")>>

\* the set holds exactly these paths, each under its canonical string
HoldsExactly(fields, paths) ==
  /\ DOMAIN fields = {PathString(q) : q \in paths}
  /\ \A q \in paths : fields[PathString(q)] = q

\* the paths the Known elements of a list parse to
ParsedPaths(elems) ==
  {FieldPathToTftypesPath(elems[i].s).path :
     i \in {j \in 1 .. Len(elems) :
              elems[j].tag = "known" /\ FieldPathToTftypesPath(elems[j].s).ok}}

ConfigurationAbsent == input.computed_fields.tag \in {"missing", "null", "unknown"}

\* C7 as stated: the computed fields are the two defaults when the
\* configuration is absent or an empty list, and the parsed paths of the
\* list, with no default added, when the list is not empty.
C7_DefaultsWhenAbsentOrEmpty ==
  stage # "input" =>
    /\ (ConfigurationAbsent \/ Len(input.computed_fields.elems) = 0)
         => HoldsExactly(output.computedFields, {AnnotationsPath, LabelsPath})
    /\ (~ConfigurationAbsent /\ Len(input.computed_fields.elems) > 0)
         => HoldsExactly(output.computedFields, ParsedPaths(input.computed_fields.elems))

\* C7, amended: the computed fields are the two defaults when the
\* configuration is missing, Null or Unknown; when a list is given, empty or
\* not, they are exactly the paths its elements parse to, each under its
\* canonical string, and no default is added.
C7_DefaultsOnlyWhenAbsent ==
  stage # "input" =>
    /\ ConfigurationAbsent
         => HoldsExactly(output.computedFields, {AnnotationsPath, LabelsPath})
    /\ ~ConfigurationAbsent
         => HoldsExactly(output.computedFields, ParsedPaths(input.computed_fields.elems))

\* an empty list has given an empty set of computed fields
C7_Witness ==
  /\ stage = "fields"
  /\ input.computed_fields = CfList(<<>>)
  /\ DOMAIN output.computedFields = {}

\* the value of the planned object at a computed path is Unknown and the
\* manifest does not have the path
UnresolvedAt(q) ==
  /\ WalkAttributePath(input.object, q).ok
  /\ ~IsKnown(WalkAttributePath(input.object, q).val)
  /\ ~WalkAttributePath(input.manifest, q).ok

\* the value of the planned object at a computed path is Unknown and the
\* manifest has the path
ResolvedAt(q) ==
  /\ WalkAttributePath(input.object, q).ok
  /\ ~IsKnown(WalkAttributePath(input.object, q).val)
  /\ WalkAttributePath(input.manifest, q).ok

ComputedPaths == {output.computedFields[key] : key \in DOMAIN output.computedFields}

\* C8: a computed path that is Unknown in the planned object and that the
\* manifest does not have stays Unknown through the backfill and is Null
\* after the collapse; such a path raises no error: a backfill that fails
\* has a computed Unknown path the manifest does have.
C8_BackfillInvariance ==
  /\ \A q \in ComputedPaths :
       (stage \in {"backfilled", "collapsed"} /\ UnresolvedAt(q))
         => /\ WalkAttributePath(output.obj, q).ok
            /\ WalkAttributePath(output.obj, q).val = WalkAttributePath(input.object, q).val
            /\ stage = "collapsed"
                 => /\ WalkAttributePath(output.minObj, q).ok
                    /\ IsNull(WalkAttributePath(output.minObj, q).val)
  /\ stage = "failed" => \E q \in ComputedPaths : ResolvedAt(q)

\* a backfill and collapse with a computed path the manifest does not have
C8_Witness ==
  /\ stage = "collapsed"
  /\ \E q \in ComputedPaths : UnresolvedAt(q)

\* the positions of a value: the paths that lead to a node of it
RECURSIVE Positions(_)
Positions(v) ==
  {<<>>} \cup
  (IF v.tag = "known" /\ IsContainer(v.ty)
   THEN UNION {{<<StepOf(v.ty, a)>> \o q : q \in Positions(v.kids[a])} : a \in DOMAIN v.kids}
   ELSE {})

\* two nodes that differ at most in what their children hold
SameNode(v, w) ==
  /\ v.tag = w.tag /\ v.ty = w.ty /\ v.s = w.s /\ v.n = w.n
  /\ DOMAIN v.kids = DOMAIN w.kids

\* C9: after a backfill that succeeds, a computed path that was Unknown in
\* the planned object and at which the manifest holds a Known value x holds
\* the Known value x coerces to, of the type of the planned position; every
\* position of the planned object that is not a computed path is as it was.
C9_BackfillCorrectness ==
  stage \in {"backfilled", "collapsed"} =>
    /\ \A q \in ComputedPaths :
         (ResolvedAt(q) /\ WalkAttributePath(input.manifest, q).val.tag = "known")
           => LET x == WalkAttributePath(input.manifest, q).val
                  was == WalkAttributePath(input.object, q).val
                  now == WalkAttributePath(output.obj, q)
              IN /\ now.ok
                 /\ now.val.tag = "known"
                 /\ now.val.ty = was.ty
                 /\ ValueToType(x, was.ty).ok
                 /\ now.val = ValueToType(x, was.ty).val
    /\ \A q \in Positions(input.object) :
         PathString(q) \notin DOMAIN output.computedFields
           => /\ WalkAttributePath(output.obj, q).ok
              /\ SameNode(WalkAttributePath(input.object, q).val,
                          WalkAttributePath(output.obj, q).val)

\* a backfill that put a coerced value of the manifest in the planned object
C9_Witness ==
  /\ stage = "backfilled"
  /\ \E q \in ComputedPaths :
       /\ ResolvedAt(q)
       /\ WalkAttributePath(input.manifest, q).val.tag = "known"
       /\ WalkAttributePath(output.obj, q).val # WalkAttributePath(input.manifest, q).val

\* scenario A: planned {metadata: {name: "x"}, spec: {replicas: Unknown}},
\* manifest {spec: {replicas: 3}}, no computed_fields configured
ScenarioA ==
  /\ input.object = PlannedObjectA("ConfigMap", NullOf(TString))
  /\ input.manifest = ManifestA
  /\ ConfigurationAbsent

\* C10 as stated: in scenario A spec.replicas is 3 after the backfill, and
\* metadata.labels stays Unknown and is Null after the collapse.
C10_ScenarioAReplicasBackfilled ==
  ScenarioA =>
    /\ stage # "failed"
    /\ stage \in {"backfilled", "collapsed"}
         => /\ WalkAttributePath(output.obj, ReplicasPath).val = Num(3)
            /\ WalkAttributePath(output.obj, LabelsPath).val = UnknownOf(TMap)
    /\ stage = "collapsed"
         => WalkAttributePath(output.minObj, LabelsPath).val = NullOf(TMap)

\* C10, amended: in scenario A spec.replicas is not a computed field, so it
\* stays Unknown through the backfill, as metadata.labels does; both are
\* Null after the collapse and are left out of the request body.  With the
\* same object and manifest, spec.replicas is 3 after the backfill when
\* computed_fields lists it.
C10_ScenarioAReplicasUntouched ==
  /\ (/\ input.object = PlannedObjectA("ConfigMap", NullOf(TString))
      /\ input.manifest = ManifestA
      /\ input.computed_fields = CfList(<<KnownElem("spec.replicas")>>))
       => /\ stage # "failed"
          /\ stage \in {"backfilled", "collapsed"}
               => WalkAttributePath(output.obj, ReplicasPath).val = Num(3)
  /\ ScenarioA =>
    /\ stage # "failed"
    /\ stage \in {"backfilled", "collapsed"}
         => /\ WalkAttributePath(output.obj, ReplicasPath).val = UnknownOf(TNumber)
            /\ WalkAttributePath(output.obj, LabelsPath).val = UnknownOf(TMap)
    /\ stage = "collapsed"
         => /\ WalkAttributePath(output.minObj, ReplicasPath).val = NullOf(TNumber)
            /\ WalkAttributePath(output.minObj, LabelsPath).val = NullOf(TMap)
            /\ LET body == mapRemoveNulls(FromTFValue(output.minObj))
               IN /\ "replicas" \notin DOMAIN body.kids["spec"].kids
                  /\ "labels" \notin DOMAIN body.kids["metadata"].kids
                  /\ GetName(body) = "x"

\* scenario A, backfilled and collapsed
C10_Witness == ScenarioA /\ stage = "collapsed"

\* the planned object and the manifest both have the computed path q
InBoth(q) ==
  WalkAttributePath(input.object, q).ok /\ WalkAttributePath(input.manifest, q).ok

\* the backfill has put at q what the manifest holds there, coerced to the
\* type of the planned position
ReplacedAt(q) ==
  LET ty == WalkAttributePath(input.object, q).val.ty
      x == WalkAttributePath(input.manifest, q).val
  IN /\ WalkAttributePath(output.obj, q).ok
     /\ ValueToType(x, ty).ok
     /\ WalkAttributePath(output.obj, q).val = ValueToType(x, ty).val

\* the backfill has left the node at q as it was
UntouchedAt(q) ==
  /\ WalkAttributePath(output.obj, q).ok
  /\ SameNode(WalkAttributePath(input.object, q).val, WalkAttributePath(output.obj, q).val)

\* C17 as stated: at a computed path the manifest has, the backfill leaves a
\* Known planned value untouched and replaces a planned value that is
\* Unknown or Null by the coerced value of the manifest.
C17_BackfillReplacesNotKnown ==
  stage \in {"backfilled", "collapsed"} =>
    \A q \in ComputedPaths : InBoth(q) =>
      IF WalkAttributePath(input.object, q).val.tag = "known"
      THEN UntouchedAt(q) ELSE ReplacedAt(q)

\* C17, amended: at a computed path the manifest has, the backfill replaces
\* only a planned value that is Unknown; a planned value that is Null is
\* left Null, as a Known one is left as it is.
C17_BackfillReplacesUnknownOnly ==
  stage \in {"backfilled", "collapsed"} =>
    \A q \in ComputedPaths : InBoth(q) =>
      IF WalkAttributePath(input.object, q).val.tag = "unknown"
      THEN ReplacedAt(q) ELSE UntouchedAt(q)

\* a backfill that left a Null planned value Null where the manifest holds
\* a value
C17_Witness ==
  /\ stage = "backfilled"
  /\ \E q \in ComputedPaths :
       /\ InBoth(q)
       /\ IsNull(WalkAttributePath(input.object, q).val)
       /\ WalkAttributePath(input.manifest, q).val.tag = "known"
       /\ IsNull(WalkAttributePath(output.obj, q).val)

====
